---- MODULE Spec2Model ----
(***************************************************************************)
(* Model of inventory-service/app.py: the /reserve and /inventory HTTP     *)
(* handlers running as concurrent request threads against one Redis        *)
(* keyspace, and the lazy RabbitMQ connection manager connect_broker.      *)
(*                                                                         *)
(* A Redis command (GET, EVAL of the Lua script) is one atomic step of the *)
(* store; everything a handler does between two store commands is local    *)
(* and is folded into the step of the command that precedes it.            *)
(***************************************************************************)
EXTENDS Integers, Sequences, FiniteSets, TLC

(* ------------------------------ bounds --------------------------------- *)

\* number of HTTP request threads; each serves one request
NumThreads == 2
\* largest DEFAULT_STOCK the deployment may configure
MaxDefault == 3
\* largest quantity a request carries (above MaxDefault: some request is always too large)
MaxQty == 4
\* magnitude of the most negative quantity a request carries
MaxNegQty == 1
\* largest integer the store can hold (stands for Redis's signed 64-bit limit:
\* DECRBY answers with an error when the result leaves the range)
StoreIntMax == 3

\* number of connect_broker calls the main thread makes
MaxCalls == 2
\* connect_broker's max_retries argument ranges over 0..MaxRetriesArg, or is omitted
MaxRetriesArg == 2
\* connect_broker's retry_base argument ranges over 0..MaxBaseArg, or is omitted
MaxBaseArg == 2

\* number of order events the broker delivers
MaxMessages == 2

\* os.environ.get("BROKER_MAX_RETRIES", 10), the variable unset
DefaultMaxRetries == 10
\* os.environ.get("BROKER_RETRY_BASE", 2), the variable unset
DefaultRetryBase == 2

Threads == 1..NumThreads
Items == {"widget", "gadget"}
Quantities == (0 - MaxNegQty)..MaxQty

\* request.get_json(): a JSON body with both fields, or one lacking a field
Bodies ==
    [item : Items, quantity : Quantities] \cup [item : Items] \cup [quantity : Quantities]

VARIABLES
    r,              \* the Redis keyspace: a function from the present keys to integers
    default_stock,  \* int(os.environ.get("DEFAULT_STOCK", 100)), fixed by the deployment
    pc,             \* per request thread: where its handler is
    data,           \* per request thread: the request it serves
    lua,            \* per request thread: what the Lua script did (cur, res)
    exc,            \* per request thread: the store call that raised, if one did
    resp            \* per request thread: the HTTP response

http_vars == <<r, default_stock, pc, data, lua, exc, resp>>

\* the main thread: connect_broker and its module globals
VARIABLES
    broker,         \* the RabbitMQ server: "up", "down" (every attempt fails) or "flaky"
    connection,     \* the module global: None, or the connection object (numbered)
    channel,        \* the module global: None, or the channel object (numbered as its connection)
    cb,             \* the connect_broker call: its locals, and how the last call ended
    ch,             \* the channel the main thread last got from connect_broker, or None
    calls,          \* connect_broker calls made
    handshakes,     \* pika.BlockingConnection(...) calls made
    open_channels   \* server side: the channels open with the order_created queue declared

broker_vars == <<broker, connection, channel, cb, ch, calls, handshakes, open_channels>>

\* the main thread: start_consumer and the callback
VARIABLES
    consumer,           \* where start_consumer is: "idle", "connecting", "consuming", "stopped"
    processed_counter,  \* the Prometheus counter orders_processed_total
    log                 \* the order events delivered so far, in order

consumer_vars == <<consumer, processed_counter, log>>

main_vars == <<broker_vars, consumer_vars>>

NoRequest == [route |-> "none"]
NoScript == [ran |-> FALSE]
NoResponse == [status |-> 0]

(* --------------------------- the Lua script ---------------------------- *)

\* DecrBy answering with the value before the decrement
DecrByOld(st, key, qty) ==
    IF st[key] - qty > StoreIntMax
    THEN [st |-> st, ok |-> FALSE, val |-> 0]
    ELSE [st |-> [st EXCEPT ![key] = st[key] - qty], ok |-> TRUE, val |-> st[key]]

\* redis.call('DECRBY', key, qty): the new value, or an error when it does not
\* fit the store's integer range (the key is left as it was)
DecrBy(st, key, qty) ==
    IF st[key] - qty > StoreIntMax
    THEN [st |-> st, ok |-> FALSE, val |-> 0]
    ELSE [st |-> [st EXCEPT ![key] = st[key] - qty], ok |-> TRUE, val |-> st[key] - qty]

\* LuaInit SETting the default for every item that is missing
LuaInitAll(st, key, dflt) ==
    [k \in DOMAIN st \cup Items |-> IF k \in DOMAIN st THEN st[k] ELSE dflt]

\* LuaInit without the test for a missing key: every call SETs the default
LuaInitAlways(st, key, dflt) ==
    [k \in DOMAIN st \cup {key} |-> IF k = key THEN dflt ELSE st[k]]

\* lines 103-109: GET, and SET to the default when the key is missing
LuaInit(st, key, dflt) ==
    IF key \in DOMAIN st THEN st ELSE [k \in DOMAIN st \cup {key} |-> IF k = key THEN dflt ELSE st[k]]

\* Insufficient rejecting a request for all that is left
InsufficientStrict(cur, qty) == cur <= qty

\* Insufficient off by one
InsufficientOffByOne(cur, qty) == cur + 1 < qty

\* line 110: the check that guards the decrement
Insufficient(cur, qty) == cur < qty

\* LuaReserve comparing a missing key's default before it SETs it
LuaReserveCheckFirst(st, key, qty, dflt) ==
    IF key \notin DOMAIN st /\ Insufficient(dflt, qty)
    THEN [st |-> st, cur |-> dflt, ok |-> TRUE, res |-> -1]
    ELSE LET st1 == LuaInit(st, key, dflt)
             cur == st1[key]
         IN  IF Insufficient(cur, qty)
             THEN [st |-> st1, cur |-> cur, ok |-> TRUE, res |-> -1]
             ELSE LET d == DecrBy(st1, key, qty)
                  IN  [st |-> d.st, cur |-> cur, ok |-> d.ok, res |-> d.val]

\* The whole script, run atomically by the store. Writes of a script that ends in
\* an error are kept (Redis does not roll a script back).
\* Result: the keyspace after, the Lua local cur, ok (FALSE: the script raised),
\* res (the script's return value).
LuaReserve(st, key, qty, dflt) ==
    LET st1 == LuaInit(st, key, dflt)
        cur == st1[key]
    IN  IF Insufficient(cur, qty)
        THEN [st |-> st1, cur |-> cur, ok |-> TRUE, res |-> -1]
        ELSE LET d == DecrBy(st1, key, qty)
             IN  [st |-> d.st, cur |-> cur, ok |-> d.ok, res |-> d.val]

(* ------------------------------ responses ------------------------------ *)

\* line 93
BadRequest == [status |-> 400, error |-> "item and quantity required"]
\* the handler of line 119 answering as for insufficient stock
RedisErrorAsRejected == [status |-> 200, success |-> FALSE, remaining |-> 0]

\* line 119
RedisError == [status |-> 500, error |-> "redis error"]
\* an exception that leaves the view function: Flask answers 500
InternalError == [status |-> 500, error |-> "internal server error"]
\* line 125
Reserved(res) == [status |-> 200, success |-> TRUE, remaining |-> res]
\* Rejected answering the default instead of reading the key
RejectedDefault(st, key, dflt) == [status |-> 200, success |-> FALSE, remaining |-> dflt]

\* lines 123-124: remaining is read again from the store
Rejected(st, key, dflt) ==
    [status |-> 200, success |-> FALSE,
     remaining |-> IF key \in DOMAIN st THEN st[key] ELSE dflt]
\* Inventory answering 0 whatever is stored
InventoryAlwaysZero(st, key) == [status |-> 200, item |-> key, stock |-> 0]

\* lines 83-86
Inventory(st, key) ==
    [status |-> 200, item |-> key, stock |-> IF key \in DOMAIN st THEN st[key] ELSE 0]

IsResult(x) == x.status = 200 /\ "success" \in DOMAIN x

(* ------------------------------- Init ---------------------------------- *)

HttpInit ==
    /\ r = << >>
    /\ default_stock \in 0..MaxDefault
    /\ pc = [t \in Threads |-> "idle"]
    /\ data = [t \in Threads |-> NoRequest]
    /\ lua = [t \in Threads |-> NoScript]
    /\ exc = [t \in Threads |-> "none"]
    /\ resp = [t \in Threads |-> NoResponse]

(* --------------------------- POST /reserve ----------------------------- *)

\* lines 89-93: a POST /reserve whose body has item and quantity arrives at thread t
ReserveCall(t) ==
    /\ pc[t] = "idle"
    /\ \E body \in Bodies :
        /\ {"item", "quantity"} \subseteq DOMAIN body
        /\ data' = [data EXCEPT ![t] = [route |-> "reserve", body |-> body]]
    /\ pc' = [pc EXCEPT ![t] = "reserve"]
    /\ UNCHANGED <<r, default_stock, lua, exc, resp>>
    /\ UNCHANGED main_vars

\* lines 89-93: a body without item or quantity is answered 400, no store access
ReserveInvalid(t) ==
    /\ pc[t] = "idle"
    /\ \E body \in Bodies :
        /\ ~ ({"item", "quantity"} \subseteq DOMAIN body)
        /\ data' = [data EXCEPT ![t] = [route |-> "reserve", body |-> body]]
    /\ resp' = [resp EXCEPT ![t] = BadRequest]
    /\ pc' = [pc EXCEPT ![t] = "done"]
    /\ UNCHANGED <<r, default_stock, lua, exc>>
    /\ UNCHANGED main_vars

\* lines 94-125: r.eval runs the script; the handler answers from its result,
\* or goes on to r.get when the script returned -1
ReserveEval(t) ==
    /\ pc[t] = "reserve"
    /\ LET item == data[t].body.item
           qty == data[t].body.quantity
           s == LuaReserve(r, item, qty, default_stock)
       IN  /\ r' = s.st
           /\ lua' = [lua EXCEPT ![t] = [ran |-> TRUE, cur |-> s.cur, ok |-> s.ok, res |-> s.res]]
           /\ IF ~ s.ok
              THEN /\ exc' = [exc EXCEPT ![t] = "eval: script error"]
                   /\ resp' = [resp EXCEPT ![t] = RedisError]
                   /\ pc' = [pc EXCEPT ![t] = "done"]
              ELSE IF s.res = -1
              THEN /\ UNCHANGED <<exc, resp>>
                   /\ pc' = [pc EXCEPT ![t] = "rejected"]
              ELSE /\ exc' = exc
                   /\ resp' = [resp EXCEPT ![t] = Reserved(s.res)]
                   /\ pc' = [pc EXCEPT ![t] = "done"]
    /\ UNCHANGED <<default_stock, data>>
    /\ UNCHANGED main_vars

\* lines 116-119: r.eval raises because the store cannot be reached; the script
\* did not run
ReserveEvalUnreachable(t) ==
    /\ pc[t] = "reserve"
    /\ exc' = [exc EXCEPT ![t] = "eval: unreachable"]
    /\ resp' = [resp EXCEPT ![t] = RedisError]
    /\ pc' = [pc EXCEPT ![t] = "done"]
    /\ UNCHANGED <<r, default_stock, data, lua>>
    /\ UNCHANGED main_vars

\* lines 122-124: after a -1, r.get reads the key and the handler answers
ReserveRejected(t) ==
    /\ pc[t] = "rejected"
    /\ resp' = [resp EXCEPT ![t] = Rejected(r, data[t].body.item, default_stock)]
    /\ pc' = [pc EXCEPT ![t] = "done"]
    /\ UNCHANGED <<r, default_stock, data, lua, exc>>
    /\ UNCHANGED main_vars

\* line 123: r.get raises; nothing catches it
ReserveRejectedUnreachable(t) ==
    /\ pc[t] = "rejected"
    /\ exc' = [exc EXCEPT ![t] = "get: unreachable"]
    /\ resp' = [resp EXCEPT ![t] = InternalError]
    /\ pc' = [pc EXCEPT ![t] = "done"]
    /\ UNCHANGED <<r, default_stock, data, lua>>
    /\ UNCHANGED main_vars

(* ------------------------ GET /inventory/<item> ------------------------ *)

\* lines 81-86
GetInventory(t) ==
    /\ pc[t] = "idle"
    /\ \E item \in Items :
        /\ data' = [data EXCEPT ![t] = [route |-> "inventory", item |-> item]]
        /\ resp' = [resp EXCEPT ![t] = Inventory(r, item)]
    /\ pc' = [pc EXCEPT ![t] = "done"]
    /\ UNCHANGED <<r, default_stock, lua, exc>>
    /\ UNCHANGED main_vars

\* line 83: r.get raises; nothing catches it
GetInventoryUnreachable(t) ==
    /\ pc[t] = "idle"
    /\ \E item \in Items :
        data' = [data EXCEPT ![t] = [route |-> "inventory", item |-> item]]
    /\ exc' = [exc EXCEPT ![t] = "get: unreachable"]
    /\ resp' = [resp EXCEPT ![t] = InternalError]
    /\ pc' = [pc EXCEPT ![t] = "done"]
    /\ UNCHANGED <<r, default_stock, lua>>
    /\ UNCHANGED main_vars

\* the requests served by the threads of T
HttpNextOf(T) ==
    \E t \in T :
        \/ ReserveCall(t)
        \/ ReserveInvalid(t)
        \/ ReserveEval(t)
        \/ ReserveEvalUnreachable(t)
        \/ ReserveRejected(t)
        \/ ReserveRejectedUnreachable(t)
        \/ GetInventory(t)
        \/ GetInventoryUnreachable(t)

HttpNext == HttpNextOf(Threads)

(* --------------------------- connect_broker ---------------------------- *)

None == 0

\* an optional argument: omitted (None), or an integer
Omitted == [given |-> FALSE]
Given(n) == [given |-> TRUE, val |-> n]

\* int(arg or os.environ.get(NAME, dflt)): None and 0 both fall through to the default
OrDefault(arg, dflt) == IF arg.given /\ arg.val # 0 THEN arg.val ELSE dflt

\* CacheHit never true: every call connects anew
CacheMiss(conn, chan) == FALSE

\* line 34
CacheHit(conn, chan) == chan # None /\ conn # None

\* Wait counting the attempts from 0
WaitFromZero(retry_base, attempt) == retry_base * attempt

\* line 54
Wait(retry_base, attempt) == retry_base * (attempt + 1)

\* where an attempt (lines 46-50) can end, by the state of the server
Outcomes ==
    CASE broker = "up" -> {"ok"}
      [] broker = "down" -> {"connection fails", "channel fails", "queue_declare fails"}
      [] broker = "flaky" -> {"ok", "connection fails", "channel fails", "queue_declare fails"}

NoCall ==
    [pc |-> "idle", outcome |-> "none", ret |-> None, max_arg |-> Omitted, base_arg |-> Omitted,
     max_retries |-> 0, retry_base |-> 0, attempt |-> 0, wait |-> 0,
     made |-> 0, declared |-> 0, waits |-> << >>]

\* the connection made when the module is imported
BrokerInitEager ==
    /\ broker \in {"up", "down", "flaky"}
    /\ connection = 1
    /\ channel = 1
    /\ cb = NoCall
    /\ ch = None
    /\ calls = 0
    /\ handshakes = 1
    /\ open_channels = {1}

\* lines 26-27: nothing is connected when the module is imported
BrokerInit ==
    /\ broker \in {"up", "down", "flaky"}
    /\ connection = None
    /\ channel = None
    /\ cb = NoCall
    /\ ch = None
    /\ calls = 0
    /\ handshakes = 0
    /\ open_channels = {}

\* lines 29-44: a call; the cached channel is returned, or the loop is entered
Connect(max_arg, base_arg) ==
    /\ cb.pc = "idle"
    /\ calls < MaxCalls
    /\ calls' = calls + 1
    /\ IF CacheHit(connection, channel)
       THEN /\ cb' = [NoCall EXCEPT !.outcome = "returned", !.ret = channel,
                                    !.max_arg = max_arg, !.base_arg = base_arg]
            /\ ch' = channel
       ELSE /\ cb' = [NoCall EXCEPT !.pc = "attempt",
                                    !.max_arg = max_arg, !.base_arg = base_arg,
                                    !.max_retries = OrDefault(max_arg, DefaultMaxRetries),
                                    !.retry_base = OrDefault(base_arg, DefaultRetryBase)]
            /\ ch' = ch
    /\ UNCHANGED <<broker, connection, channel, handshakes, open_channels>>
    /\ UNCHANGED http_vars

\* connect_broker called on its own, the main thread not inside start_consumer
ConnectBroker(max_arg, base_arg) ==
    /\ consumer \in {"idle", "stopped"}
    /\ Connect(max_arg, base_arg)
    /\ UNCHANGED consumer_vars

\* lines 46-51: the attempt succeeds and the new channel is returned
AttemptOk ==
    /\ cb.pc = "attempt"
    /\ "ok" \in Outcomes
    /\ handshakes' = handshakes + 1
    /\ connection' = handshakes + 1
    /\ channel' = handshakes + 1
    /\ cb' = [cb EXCEPT !.pc = "idle", !.outcome = "returned", !.ret = handshakes + 1,
                        !.made = @ + 1, !.declared = @ + 1]
    /\ ch' = handshakes + 1
    /\ open_channels' = open_channels \cup {handshakes + 1}
    /\ UNCHANGED <<broker, calls>>
    /\ UNCHANGED <<http_vars, consumer_vars>>

\* lines 46-55: a call of the attempt raises; the globals assigned before it keep
\* their new values, and the wait is computed
AttemptFails(stage) ==
    /\ cb.pc = "attempt"
    /\ stage \in Outcomes \ {"ok"}
    /\ handshakes' = handshakes + 1
    /\ connection' = IF stage = "connection fails" THEN connection ELSE handshakes + 1
    /\ channel' = IF stage = "queue_declare fails" THEN handshakes + 1 ELSE channel
    /\ cb' = [cb EXCEPT !.pc = "sleep", !.made = @ + 1,
                        !.declared = IF stage = "queue_declare fails" THEN @ + 1 ELSE @,
                        !.wait = Wait(cb.retry_base, cb.attempt)]
    /\ UNCHANGED <<broker, ch, calls, open_channels>>
    /\ UNCHANGED <<http_vars, consumer_vars>>

\* lines 56, 44, 57: the sleep, then the next attempt, or RuntimeError once
\* range(max_retries) is exhausted
Sleep ==
    /\ cb.pc = "sleep"
    /\ cb' = [cb EXCEPT !.waits = Append(@, cb.wait),
                        !.attempt = @ + 1,
                        !.pc = IF cb.attempt + 1 < cb.max_retries THEN "attempt" ELSE "idle",
                        !.outcome = IF cb.attempt + 1 < cb.max_retries THEN "none" ELSE "raised"]
    /\ UNCHANGED <<broker, connection, channel, ch, calls, handshakes, open_channels>>
    /\ UNCHANGED <<http_vars, consumer_vars>>

RetriesArgs == {Omitted} \cup {Given(n) : n \in 0..MaxRetriesArg}
BaseArgs == {Omitted} \cup {Given(n) : n \in 0..MaxBaseArg}

BrokerNext ==
    \/ \E max_arg \in RetriesArgs, base_arg \in BaseArgs : ConnectBroker(max_arg, base_arg)
    \/ AttemptOk
    \/ \E stage \in {"connection fails", "channel fails", "queue_declare fails"} : AttemptFails(stage)
    \/ Sleep

(* ------------------------ start_consumer, callback --------------------- *)

\* int(x) of a JSON value: an integer, or a string of digits; any other string
\* raises ValueError
QuantityValues ==
    {[type |-> "int", text |-> "30"], [type |-> "str", text |-> "30"], [type |-> "str", text |-> "many"]}
IntRaises(v) == v.type = "str" /\ v.text \notin {"30"}

\* the JSON objects a message body can hold
\* (events name one item; the callback only looks the key up)
Orders ==
    [item : {"widget"}, quantity : QuantityValues]
        \cup [item : {"widget"}] \cup [quantity : {[type |-> "int", text |-> "30"]}]

\* a message body: bytes json.loads rejects, or the text of a JSON object
Unparsable == [json |-> FALSE]
Encoded(order) == [json |-> TRUE, order |-> order]
EventBodies == {Unparsable} \cup {Encoded(o) : o \in Orders}

\* lines 62-64: json.loads, order["item"], int(order["quantity"]) raise on a body
\* that is not a JSON object with item and an integer-like quantity
CallbackRaises(body) ==
    \/ ~ body.json
    \/ "item" \notin DOMAIN body.order
    \/ "quantity" \notin DOMAIN body.order
    \/ IntRaises(body.order.quantity)

\* line 64: the integer int(...) gives
IntOf(v) == CASE v.text = "30" -> 30

\* CallbackCounter incrementing before the body is parsed
CallbackCounterFirst(body, counter) == counter + 1

\* lines 61-70, the counter: incremented once the three lines above have passed
CallbackCounter(body, counter) ==
    IF CallbackRaises(body) THEN counter ELSE counter + 1

\* CallbackStore reserving the order's quantity, as a consumer that owns the stock would
CallbackReserves(st, body, dflt) ==
    IF CallbackRaises(body) THEN st
    ELSE LuaReserve(st, body.order.item, IntOf(body.order.quantity), dflt).st

\* lines 61-70, the store: the callback makes no store call
CallbackStore(st, body, dflt) == st

ConsumerInit ==
    /\ consumer = "idle"
    /\ processed_counter = 0
    /\ log = << >>

\* line 77: start_consumer calls connect_broker()
StartConsumer ==
    /\ consumer \in {"idle", "stopped"}
    /\ Connect(Omitted, Omitted)
    /\ consumer' = "connecting"
    /\ UNCHANGED <<processed_counter, log>>

\* lines 78-79: connect_broker has returned; basic_consume and start_consuming
\* on a channel that is open, or basic_consume raises on one that is not
Subscribe ==
    /\ consumer = "connecting"
    /\ cb.pc = "idle" /\ cb.outcome = "returned"
    /\ consumer' = IF ch \in open_channels THEN "consuming" ELSE "stopped"
    /\ UNCHANGED <<processed_counter, log>>
    /\ UNCHANGED <<http_vars, broker_vars>>

\* line 77: connect_broker has raised RuntimeError, which leaves start_consumer
ConnectRaised ==
    /\ consumer = "connecting"
    /\ cb.pc = "idle" /\ cb.outcome = "raised"
    /\ consumer' = "stopped"
    /\ UNCHANGED <<processed_counter, log>>
    /\ UNCHANGED <<http_vars, broker_vars>>

\* lines 61-70: an order event is delivered (auto_ack) and the callback handles it;
\* an exception of the callback leaves start_consuming and start_consumer
Deliver(body) ==
    /\ consumer = "consuming"
    /\ Len(log) < MaxMessages
    /\ log' = Append(log, body)
    /\ processed_counter' = CallbackCounter(body, processed_counter)
    /\ r' = CallbackStore(r, body, default_stock)
    /\ consumer' = IF CallbackRaises(body) THEN "stopped" ELSE "consuming"
    /\ UNCHANGED <<default_stock, pc, data, lua, exc, resp>>
    /\ UNCHANGED broker_vars

ConsumerNext ==
    \/ StartConsumer
    \/ Subscribe
    \/ ConnectRaised
    \/ \E body \in EventBodies : Deliver(body)

(* --------------------------- specifications ---------------------------- *)

vars == <<http_vars, broker_vars, consumer_vars>>

Init == HttpInit /\ BrokerInit /\ ConsumerInit

\* the main thread: connect_broker calls, start_consumer, the deliveries
MainNext == BrokerNext \/ ConsumerNext

\* the whole service: the request threads and the main thread
Next == HttpNext \/ MainNext

Spec == Init /\ [][Next]_vars

\* The request threads and the main thread share no variable that both write,
\* and each is also checked alone: the request threads with the main thread not
\* started (the server's state is then never read), the main thread with no
\* request served (nor is the default stock).
InitHttp == Init /\ broker = "up"

SpecHttp == InitHttp /\ [][HttpNext]_vars

InitBroker == Init /\ default_stock = 0

SpecBroker == InitBroker /\ [][BrokerNext]_vars

SpecMain == InitBroker /\ [][MainNext]_vars

\* The service as __main__ runs it (lines 132-136), cut to one request thread:
\* the main thread calls start_consumer, once, while the request is served. The
\* server is "flaky": each attempt may end in any way.
ServiceStart == calls = 0 /\ StartConsumer

ServiceNext ==
    \/ HttpNextOf({t \in Threads : t = 1})
    \/ ServiceStart
    \/ Subscribe
    \/ ConnectRaised
    \/ \E body \in EventBodies : Deliver(body)
    \/ AttemptOk
    \/ \E stage \in {"connection fails", "channel fails", "queue_declare fails"} : AttemptFails(stage)
    \/ Sleep

InitService == Init /\ broker = "flaky"

SpecService == InitService /\ [][ServiceNext]_vars

(* ============================== claims ================================= *)

RECURSIVE SumOver(_, _)
SumOver(f, S) ==
    IF S = {} THEN 0
    ELSE LET x == CHOOSE y \in S : TRUE IN f[x] + SumOver(f, S \ {x})

IsReserve(t) == data[t].route = "reserve" /\ {"item", "quantity"} \subseteq DOMAIN data[t].body
\* the threads whose script has run on item i
Ran(i) == {t \in Threads : IsReserve(t) /\ data[t].body.item = i /\ lua[t].ran}
\* the threads answered success=true for item i
Succeeded(i) ==
    {t \in Threads : IsReserve(t) /\ data[t].body.item = i /\ pc[t] = "done"
                     /\ IsResult(resp[t]) /\ resp[t].success}
Finished(i) == \A t \in Threads : IsReserve(t) /\ data[t].body.item = i => pc[t] = "done"
QtyOf == [t \in Threads |-> IF IsReserve(t) THEN data[t].body.quantity ELSE 0]
\* thread t takes the step that runs its script
RunsScript(t) == ~ lua[t].ran /\ lua'[t].ran
\* the stock the script of a call on item i meets: the stored value, or the default
Current(i) == IF i \in DOMAIN r THEN r[i] ELSE default_stock

\* C1: when the reserve calls on an item, absent at the start, all have positive
\* quantities, the quantities of the calls answered success=true add up to at most
\* the default stock, and the stored stock is the default minus that sum (so it
\* is when all the calls have finished).
C1_Atomicity ==
    \A i \in Items :
        (\A t \in Ran(i) : QtyOf[t] > 0) /\ i \in DOMAIN r =>
            /\ SumOver(QtyOf, Succeeded(i)) <= default_stock
            /\ r[i] = default_stock - SumOver(QtyOf, Succeeded(i))

\* C1 witness: two calls on one item have finished, their quantities together
\* exceed the default stock, and one of them was answered success=true
C1_Witness ==
    \E i \in Items : \E t, u \in Ran(i) :
        /\ t # u /\ Finished(i)
        /\ QtyOf[t] > 0 /\ QtyOf[u] > 0 /\ QtyOf[t] + QtyOf[u] > default_stock
        /\ t \in Succeeded(i) /\ u \notin Succeeded(i)

\* C2: a stock record that is present is never negative, whatever the quantities
C2_NonNegative == \A i \in DOMAIN r : r[i] >= 0

\* C2 witness: reserve calls, one with a negative and one with a positive quantity,
\* have run on an item and have brought its stock to zero
C2_Witness ==
    \E i \in DOMAIN r : \E t, u \in Ran(i) :
        r[i] = 0 /\ QtyOf[t] < 0 /\ QtyOf[u] > 0 /\ lua[u].res = 0

\* C3 (as claimed): a call whose check found C < Q is answered success=false with
\* remaining = C, the value the check compared against
C3_RejectedRemaining ==
    \A t \in Threads :
        IsReserve(t) /\ pc[t] = "done" /\ IsResult(resp[t]) /\ ~ resp[t].success =>
            resp[t].remaining = lua[t].cur

\* C4 (as claimed): a call with quantity <= 0 is never answered success=true and
\* its script never changes the stock of the item (so never increases it)
C4_NonPositiveInvalid ==
    [][\A t \in Threads :
         RunsScript(t) /\ QtyOf[t] <= 0 =>
            /\ ~ (IsResult(resp'[t]) /\ resp'[t].success)
            /\ r'[data[t].body.item] = Current(data[t].body.item)
      ]_vars

\* C5: the script of a call on an absent item SETs the default and compares the
\* default; when it rejects, the record is present at the default and
\* GET /inventory answers the default
C5_DefaultInit ==
    [][\A t \in Threads :
         RunsScript(t) /\ data[t].body.item \notin DOMAIN r =>
            LET i == data[t].body.item IN
            /\ i \in DOMAIN r'
            /\ lua'[t].cur = default_stock
            /\ QtyOf[t] > default_stock =>
                 /\ pc'[t] = "rejected"
                 /\ r'[i] = default_stock
                 /\ Inventory(r', i).stock = default_stock
      ]_vars

\* C5 witness: a first call on an item was rejected for insufficient stock and a
\* GET /inventory of the item has answered the default, which is not 0
C5_Witness ==
    \E t, u \in Threads :
        /\ IsReserve(t) /\ lua[t].ran /\ lua[t].res = -1 /\ lua[t].cur = default_stock
        /\ data[u].route = "inventory" /\ data[u].item = data[t].body.item
        /\ resp[u].status = 200 /\ resp[u].stock = default_stock
        /\ default_stock > 0
        /\ \A v \in Threads : IsReserve(v) /\ lua[v].ran => v = t

\* C6: the script of a call with Q > 0 that meets stock C >= Q stores C - Q, and
\* the call is answered success=true with remaining = C - Q, the value stored
C6_Decrement ==
    [][\A t \in Threads :
         RunsScript(t) /\ QtyOf[t] > 0 /\ Current(data[t].body.item) >= QtyOf[t] =>
            LET i == data[t].body.item IN
            /\ r'[i] = Current(i) - QtyOf[t]
            /\ pc'[t] = "done"
            /\ resp'[t] = [status |-> 200, success |-> TRUE, remaining |-> r'[i]]
      ]_vars

\* C6 witness: a call was answered success=true after another call had already
\* lowered the stock of the same item
C6_Witness ==
    \E t \in Threads :
        /\ IsReserve(t) /\ pc[t] = "done" /\ IsResult(resp[t]) /\ resp[t].success
        /\ QtyOf[t] > 0 /\ lua[t].cur < default_stock /\ resp[t].remaining > 0

\* C7: a reserve call whose store access raises (the script, or the r.get after a
\* rejection) is answered 500, neither success=true nor success=false, and a
\* script that failed leaves the stock of every item as it was
C7_StoreError ==
    [][\A t \in Threads :
         IsReserve(t) /\ exc[t] = "none" /\ exc'[t] # "none" =>
            /\ pc'[t] = "done"
            /\ resp'[t].status = 500
            /\ ~ IsResult(resp'[t])
            /\ exc'[t] \in {"eval: script error", "eval: unreachable"} =>
                 \A i \in Items : Current(i)' = Current(i)
      ]_vars

\* C7 witness: one reserve call ended on a script that raised after its SET of a
\* missing key, another on an r.get that raised
C7_Witness ==
    \E t, u \in Threads :
        /\ IsReserve(t) /\ exc[t] = "eval: script error" /\ resp[t] = RedisError
        /\ IsReserve(u) /\ exc[u] = "get: unreachable" /\ resp[u].status = 500

\* a connect_broker call is made in this step
Called == calls' = calls + 1

\* C8: once a call has returned a channel, every later call returns that same
\* channel at once: no connection opened, no queue declared, no wait
C8_Idempotent ==
    [][ch # None /\ Called =>
         /\ cb'.pc = "idle" /\ cb'.outcome = "returned"
         /\ cb'.ret = ch
         /\ ch' = ch
         /\ handshakes' = handshakes /\ connection' = connection /\ channel' = channel
         /\ cb'.made = 0 /\ cb'.declared = 0 /\ cb'.waits = << >>
      ]_vars

\* C8 witness: a call that connected after a failed attempt, then a later call
\* that returned the same channel without an attempt of its own
C8_Witness ==
    /\ calls = 2 /\ cb.pc = "idle" /\ cb.outcome = "returned" /\ cb.made = 0
    /\ cb.ret = ch /\ ch = handshakes /\ handshakes > 1

\* C9 (as claimed): with max attempts N >= 1 and a broker for which every attempt
\* fails, a call that has ended made exactly N attempts and raised the error,
\* and a call in progress has made at most N
C9_ExactlyN ==
    broker = "down" /\ cb.max_arg.given /\ cb.max_arg.val >= 1 =>
        /\ cb.made <= cb.max_arg.val
        /\ cb.pc = "idle" => cb.outcome = "raised" /\ cb.made = cb.max_arg.val

\* C10: in a call with backoff base B >= 1 the k-th wait is B * k, the waits
\* increase strictly, and attempt k + 1 is made only when k waits are over
C10_LinearBackoff ==
    cb.base_arg.given /\ cb.base_arg.val >= 1 =>
        /\ \A k \in 1..Len(cb.waits) : cb.waits[k] = cb.base_arg.val * k
        /\ \A k \in 1..(Len(cb.waits) - 1) : cb.waits[k] < cb.waits[k + 1]
        /\ cb.pc = "attempt" => Len(cb.waits) = cb.made
        /\ cb.pc = "sleep" => Len(cb.waits) = cb.made - 1 /\ cb.wait = cb.base_arg.val * cb.made
        /\ cb.made <= Len(cb.waits) + 1

\* C10 witness: a call with base 2 is about to make its fourth attempt, the three
\* waits behind it
C10_Witness ==
    /\ cb.base_arg = Given(2) /\ cb.pc = "attempt"
    /\ cb.made = 3 /\ cb.waits = <<2, 4, 6>>

\* C11 (as claimed): after a call that exhausted its attempts and raised, a later
\* call (of connect_broker, or of start_consumer) neither starts connection
\* attempts nor returns a channel
C11_FailedTerminal ==
    [][cb.pc = "idle" /\ cb.outcome = "raised" /\ Called =>
         cb'.pc # "attempt" /\ cb'.outcome # "returned"
      ]_vars

\* C12: until the first call of connect_broker or start_consumer nothing is
\* connected and no attempt has been made, whatever requests are served
C12_Lazy ==
    calls = 0 =>
        /\ connection = None /\ channel = None
        /\ handshakes = 0 /\ open_channels = {}
        /\ cb = NoCall /\ consumer = "idle"

\* C12 witness: a reserve request has been answered success=true and the main
\* thread has made no call yet
C12_Witness ==
    /\ calls = 0 /\ connection = None /\ handshakes = 0
    /\ pc[1] = "done" /\ IsReserve(1) /\ IsResult(resp[1]) /\ resp[1].success

\* a delivered body is well-formed: a JSON object with item and a quantity that
\* is an integer or a string of digits
WellFormed(body) ==
    /\ body.json
    /\ {"item", "quantity"} \subseteq DOMAIN body.order
    /\ body.order.quantity.type = "int" \/ body.order.quantity.text = "30"
\* an event is delivered in this step
Delivered == Len(log') = Len(log) + 1

\* C13: the processed counter equals the number of well-formed events delivered
\* so far: 0 at the start, one more for each, none for an event the callback
\* fails on, never less
C13_ProcessedCounter ==
    processed_counter = Cardinality({k \in 1..Len(log) : WellFormed(log[k])})

\* C13 witness: a well-formed event was counted, then a malformed one was not
C13_Witness ==
    /\ Len(log) = 2 /\ WellFormed(log[1]) /\ ~ WellFormed(log[2])
    /\ log[1].order.quantity.type = "str"
    /\ processed_counter = 1

\* C14 (as claimed): the consumer is still consuming after any delivery, of a
\* malformed event too
C14_MalformedKeepsLoop ==
    [][Delivered => consumer' = "consuming"]_vars

\* C15: a delivery leaves the keyspace as it is, and the keyspace changes only in
\* the step that runs the script of a reserve call
C15_ConsumerFrame ==
    [][/\ Delivered => r' = r
       /\ r' # r => \E t \in Threads : RunsScript(t)
      ]_vars

\* C15 witness: a well-formed event for an item was handled after a reserve call
\* had lowered the stock of that item, which still has that stock
C15_Witness ==
    /\ Len(log) >= 1 /\ WellFormed(log[1]) /\ processed_counter >= 1
    /\ log[1].order.item \in DOMAIN r
    /\ pc[1] = "done" /\ IsReserve(1) /\ IsResult(resp[1]) /\ resp[1].success
    /\ QtyOf[1] > 0 /\ data[1].body.item = log[1].order.item
    /\ r[data[1].body.item] = default_stock - QtyOf[1]

\* thread t serves GET /inventory in this step
ServesInventory(t) == pc[t] = "idle" /\ pc'[t] = "done" /\ data'[t].route = "inventory"

\* C16: GET /inventory leaves the keyspace as it is (a missing record stays
\* missing) and answers 0 for a missing record, the stored value otherwise
C16_ReadOnly ==
    [][\A t \in Threads :
         ServesInventory(t) =>
            /\ r' = r
            /\ exc'[t] = "none" =>
                 /\ resp'[t].status = 200 /\ resp'[t].item = data'[t].item
                 /\ resp'[t].stock = IF data'[t].item \in DOMAIN r THEN r[data'[t].item] ELSE 0
      ]_vars

\* C16 witness: GET /inventory answered 0 for an item, and a reserve call on that
\* item then found it missing and started from the default
C16_Witness ==
    \E t, u \in Threads :
        /\ data[t].route = "inventory" /\ resp[t].status = 200 /\ resp[t].stock = 0
        /\ IsReserve(u) /\ data[u].body.item = data[t].item /\ lua[u].ran
        /\ lua[u].cur = default_stock /\ r[data[t].item] > 0

Min(a, b) == IF a < b THEN a ELSE b

\* C17: when the calls whose script ran on an item all asked for the same q > 0
\* and all calls on the item have finished, min(N, D div q) of the N were answered
\* success=true, the stock is D - q * min(N, D div q), and no answer and no stored
\* value is negative
C17_NoSpuriousRejection ==
    \A i \in Items : \A q \in 1..MaxQty :
        Ran(i) # {} /\ Finished(i) /\ (\A t \in Ran(i) : QtyOf[t] = q) =>
            LET n == Min(Cardinality(Ran(i)), default_stock \div q) IN
            /\ Cardinality(Succeeded(i)) = n
            /\ r[i] = default_stock - q * n
            /\ r[i] >= 0
            /\ \A t \in Ran(i) : IsResult(resp[t]) => resp[t].remaining >= 0

\* C17 witness: two calls for the same quantity, the stock enough for one: one
\* was answered success=true, the other success=false
C17_Witness ==
    \E i \in Items : \E t, u \in Ran(i) :
        /\ t # u /\ Finished(i) /\ QtyOf[t] = QtyOf[u] /\ QtyOf[t] > 0
        /\ default_stock \div QtyOf[t] = 1
        /\ t \in Succeeded(i)
        /\ IsResult(resp[u]) /\ ~ resp[u].success /\ resp[u].remaining = default_stock - QtyOf[t]

\* reserve as one indivisible operation on the stock c of an item
SeqReserve(c, q) ==
    IF c < q THEN [stock |-> c, success |-> FALSE, remaining |-> c]
    ELSE [stock |-> c - q, success |-> TRUE, remaining |-> c - q]
\* thread t answers its reserve call with a result in this step
Answers(t) == IsReserve(t) /\ pc[t] # "done" /\ pc'[t] = "done" /\ IsResult(resp'[t])

\* C18: every reserve call with a result takes effect at one step between its
\* arrival and its answer (the step that answers it): there the stock of its item
\* and its answer change as the indivisible reserve does, and every other step
\* leaves every stock as it is. While the quantities are positive, the answers
\* and the final stock are those of the calls run one at a time in the order of
\* these steps, an order that keeps the order of calls that do not overlap.
C18_Linearizable ==
    [][(\A u \in Threads : lua'[u].ran => QtyOf[u] > 0) =>
         /\ \A t \in Threads :
              Answers(t) =>
                 LET i == data[t].body.item
                     s == SeqReserve(Current(i), QtyOf[t])
                 IN  /\ Current(i)' = s.stock
                     /\ resp'[t].success = s.success
                     /\ resp'[t].remaining = s.remaining
                     /\ \A j \in Items \ {i} : Current(j)' = Current(j)
         /\ (\A t \in Threads : ~ Answers(t)) => \A j \in Items : Current(j)' = Current(j)
      ]_vars

\* C18 witness: a rejected call was answered with a stock lower than the one its
\* check had met, another call having reserved in between
C18_Witness ==
    \E t, u \in Threads :
        /\ t # u /\ IsReserve(t) /\ IsReserve(u) /\ pc[t] = "done" /\ pc[u] = "done"
        /\ QtyOf[t] > 0 /\ QtyOf[u] > 0
        /\ IsResult(resp[t]) /\ ~ resp[t].success /\ resp[t].remaining < lua[t].cur
        /\ IsResult(resp[u]) /\ resp[u].success

\* C19 (as claimed): a channel connect_broker returns is one of an attempt in which
\* the connection, the channel and the queue declaration all succeeded
C19_ReturnsConnected ==
    cb.outcome = "returned" => cb.ret \in open_channels

\* thread t takes a step of a reserve call on an item
ReserveStep(t) == pc[t] \in {"reserve", "rejected"} /\ pc'[t] # pc[t]

\* C20: a step of a reserve call on item A neither creates nor changes the record
\* of another item, and what the call is answered is decided by the stock of A
C20_OtherItems ==
    [][\A t \in Threads :
         ReserveStep(t) =>
            LET a == data[t].body.item IN
            /\ \A b \in Items \ {a} :
                 /\ b \in DOMAIN r' <=> b \in DOMAIN r
                 /\ b \in DOMAIN r => r'[b] = r[b]
            /\ RunsScript(t) /\ lua'[t].ok =>
                 lua'[t].res = IF Current(a) < QtyOf[t] THEN -1 ELSE Current(a) - QtyOf[t]
            /\ pc[t] = "rejected" /\ exc'[t] = "none" => resp'[t].remaining = Current(a)
      ]_vars

\* C20 witness: reserve calls on two items have been answered success=true, each
\* with what its own item had left
C20_Witness ==
    \E t, u \in Threads :
        /\ IsReserve(t) /\ IsReserve(u) /\ data[t].body.item # data[u].body.item
        /\ pc[t] = "done" /\ pc[u] = "done"
        /\ IsResult(resp[t]) /\ resp[t].success /\ IsResult(resp[u]) /\ resp[u].success
        /\ QtyOf[t] > 0 /\ QtyOf[u] > 0 /\ QtyOf[t] # QtyOf[u]
        /\ resp[t].remaining = default_stock - QtyOf[t]
        /\ resp[u].remaining = default_stock - QtyOf[u]

====
